---- MODULE Spec2Model ----
(***************************************************************************)
(* Slot-availability state machine of the HealthCarer appointment service. *)
(*                                                                         *)
(* HealthCarerDynamoDB (dynamodb-client.ts) keeps no state of its own: the *)
(* state is the DynamoDB table 'healthcarer-appointments', keyed by        *)
(* (carer_id, date_time_slot).  Every method issues single-item requests   *)
(* (conditional Put, conditional Update) or one read (Query, Scan); each   *)
(* request is applied atomically by the table.  A request that the table   *)
(* does not serve (throttled, unreachable) is rejected without effect and  *)
(* the SDK raises an error whose name is not                               *)
(* 'ConditionalCheckFailedException'.                                      *)
(***************************************************************************)
EXTENDS Integers, Sequences, FiniteSets, TLC

VARIABLES
    store,        \* the table: a function from the keys that exist to items
    inits,        \* the initializeTimeSlots calls in progress
    last,         \* the request or call that the latest step completed
    beforeBook,   \* history: per booked key, the item as it was before the book
    calls,        \* the bookAppointment calls of the booking race
    twice         \* history of the sequential double Initialize

vars == <<store, inits, last, beforeBook, calls, twice>>

----------------------------------------------------------------------------
(* Bounds of the model *)

MaxTriples == 2    \* triples of the catalogue, in loop order, that are seeded
NumInit == 1       \* concurrent initializeTimeSlots calls
NumCallers == 3    \* concurrent bookAppointment calls of the race

----------------------------------------------------------------------------
(* Catalogue generation *)

StartHour == 9
EndHour == 15
MinutesPerHour == 60
IntervalMinutes == 30

\* variant: the decimal form is not padded
padStartNone(n) == ToString(n)

\* String.prototype.padStart(2, '0') of the decimal form of n
padStart2(n) ==
    LET s == ToString(n)
    IN  IF Len(s) < 2 THEN "0" \o s ELSE s

timeString(hour, minute) == padStart2(hour) \o padStart2(minute)

RECURSIVE minuteLoop(_, _)
minuteLoop(hour, minute) ==
    IF minute < MinutesPerHour
    THEN <<timeString(hour, minute)>> \o minuteLoop(hour, minute + IntervalMinutes)
    ELSE <<>>

RECURSIVE hourLoop(_)
hourLoop(hour) ==
    IF hour <= EndHour
    THEN minuteLoop(hour, 0) \o hourLoop(hour + 1)
    ELSE <<>>

generateTimeSlots == hourLoop(StartHour)

carers == <<"Doctor1", "Doctor2", "doctor3">>
dates == <<"20250728", "20250729", "20250730">>

Range(s) == {s[i] : i \in 1..Len(s)}
Min(a, b) == IF a < b THEN a ELSE b

\* the (carer, date, timeSlot) triples in the order of the three nested loops
promises ==
    LET timeSlots == generateTimeSlots
        perCarer == Len(dates) * Len(timeSlots)
    IN  [i \in 1..(Len(carers) * perCarer) |->
            <<carers[((i - 1) \div perCarer) + 1],
              dates[(((i - 1) % perCarer) \div Len(timeSlots)) + 1],
              timeSlots[((i - 1) % Len(timeSlots)) + 1]>>]

\* variant: the sort key lacks the '#' separator
dateTimeSlotOfJoined(date, timeSlot) == date \o timeSlot

\* variant: the sort key is the date alone
dateTimeSlotOfDate(date, timeSlot) == date

dateTimeSlotOf(date, timeSlot) == date \o "#" \o timeSlot

\* variant: the item is created in a third state
NewItemReserved(carer, date, timeSlot) ==
    [carer_id |-> carer,
     date_time_slot |-> dateTimeSlotOf(date, timeSlot),
     availability |-> "Reserved",
     date |-> date,
     time_slot |-> timeSlot]

\* the item that initializeTimeSlots builds for one triple
NewItem(carer, date, timeSlot) ==
    [carer_id |-> carer,
     date_time_slot |-> dateTimeSlotOf(date, timeSlot),
     availability |-> "Free",
     date |-> date,
     time_slot |-> timeSlot]

KeyOf(item) == <<item.carer_id, item.date_time_slot>>

\* the part of the catalogue that the model seeds
Triples == Range(SubSeq(promises, 1, Min(MaxTriples, Len(promises))))
ItemOfTriple(t) == NewItem(t[1], t[2], t[3])

----------------------------------------------------------------------------
(* The table's requests *)

ConditionalCheckFailed == "ConditionalCheckFailedException"
NoError == "none"
StoreErrors == {"ProvisionedThroughputExceededException"}
Faults == {NoError} \union StoreErrors

HasName(item) == "booking_person_name" \in DOMAIN item

\* variant: PutCommand without its ConditionExpression
PutOverwrite(st, item, fault) ==
    IF fault # NoError THEN [store |-> st, error |-> fault]
    ELSE [store |-> (KeyOf(item) :> item) @@ st, error |-> NoError]

\* PutCommand with ConditionExpression 'attribute_not_exists(carer_id)'
PutIfAbsent(st, item, fault) ==
    IF fault # NoError THEN [store |-> st, error |-> fault]
    ELSE IF KeyOf(item) \in DOMAIN st
    THEN [store |-> st, error |-> ConditionalCheckFailed]
    ELSE [store |-> (KeyOf(item) :> item) @@ st, error |-> NoError]

\* variant: the condition also asks that no other slot of the carer is Booked
UpdateBookCarerLock(st, key, personName, fault) ==
    IF fault # NoError THEN [store |-> st, error |-> fault]
    ELSE IF /\ key \in DOMAIN st
            /\ st[key].availability = "Free"
            /\ \A k \in DOMAIN st : k[1] = key[1] => st[k].availability = "Free"
    THEN [store |-> [st EXCEPT ![key] =
                        [f \in DOMAIN st[key] \union {"booking_person_name"} |->
                            IF f = "availability" THEN "Booked"
                            ELSE IF f = "booking_person_name" THEN personName
                            ELSE st[key][f]]],
          error |-> NoError]
    ELSE [store |-> st, error |-> ConditionalCheckFailed]

\* variant: the condition is 'attribute_exists(carer_id)' instead of 'availability = :free'
UpdateBookIfExists(st, key, personName, fault) ==
    IF fault # NoError THEN [store |-> st, error |-> fault]
    ELSE IF key \in DOMAIN st
    THEN [store |-> [st EXCEPT ![key] =
                        [f \in DOMAIN st[key] \union {"booking_person_name"} |->
                            IF f = "availability" THEN "Booked"
                            ELSE IF f = "booking_person_name" THEN personName
                            ELSE st[key][f]]],
          error |-> NoError]
    ELSE [store |-> st, error |-> ConditionalCheckFailed]

\* variant: an absent item passes the condition, so that the update creates it
UpdateBookUpsert(st, key, personName, fault) ==
    IF fault # NoError THEN [store |-> st, error |-> fault]
    ELSE IF key \notin DOMAIN st
    THEN [store |-> (key :> [carer_id |-> key[1], date_time_slot |-> key[2],
                             availability |-> "Booked",
                             booking_person_name |-> personName]) @@ st,
          error |-> NoError]
    ELSE IF st[key].availability = "Free"
    THEN [store |-> [st EXCEPT ![key] =
                        [f \in DOMAIN st[key] \union {"booking_person_name"} |->
                            IF f = "availability" THEN "Booked"
                            ELSE IF f = "booking_person_name" THEN personName
                            ELSE st[key][f]]],
          error |-> NoError]
    ELSE [store |-> st, error |-> ConditionalCheckFailed]

\* variant: the update expression sets availability only
UpdateBookNoName(st, key, personName, fault) ==
    IF fault # NoError THEN [store |-> st, error |-> fault]
    ELSE IF key \in DOMAIN st /\ st[key].availability = "Free"
    THEN [store |-> [st EXCEPT ![key] =
                        [f \in DOMAIN st[key] |->
                            IF f = "availability" THEN "Booked" ELSE st[key][f]]],
          error |-> NoError]
    ELSE [store |-> st, error |-> ConditionalCheckFailed]

\* UpdateCommand 'SET availability = :booked, booking_person_name = :person_name'
\* with ConditionExpression 'availability = :free'
UpdateBook(st, key, personName, fault) ==
    IF fault # NoError THEN [store |-> st, error |-> fault]
    ELSE IF key \in DOMAIN st /\ st[key].availability = "Free"
    THEN [store |-> [st EXCEPT ![key] =
                        [f \in DOMAIN st[key] \union {"booking_person_name"} |->
                            IF f = "availability" THEN "Booked"
                            ELSE IF f = "booking_person_name" THEN personName
                            ELSE st[key][f]]],
          error |-> NoError]
    ELSE [store |-> st, error |-> ConditionalCheckFailed]

\* variant: the condition also asks that the booking is Alice's
UpdateCancelOwner(st, key, fault) ==
    IF fault # NoError THEN [store |-> st, error |-> fault]
    ELSE IF /\ key \in DOMAIN st
            /\ st[key].availability = "Booked"
            /\ st[key].booking_person_name = "Alice"
    THEN [store |-> [st EXCEPT ![key] =
                        [f \in DOMAIN st[key] \ {"booking_person_name"} |->
                            IF f = "availability" THEN "Free"
                            ELSE st[key][f]]],
          error |-> NoError]
    ELSE [store |-> st, error |-> ConditionalCheckFailed]

\* variant: the condition is 'availability = :free', which no booked item meets
UpdateCancelNever(st, key, fault) ==
    IF fault # NoError THEN [store |-> st, error |-> fault]
    ELSE [store |-> st, error |-> ConditionalCheckFailed]

\* variant: the item is replaced by a PutCommand of its key and availability
UpdateCancelReplace(st, key, fault) ==
    IF fault # NoError THEN [store |-> st, error |-> fault]
    ELSE IF key \in DOMAIN st /\ st[key].availability = "Booked"
    THEN [store |-> [st EXCEPT ![key] =
                        [carer_id |-> key[1], date_time_slot |-> key[2],
                         availability |-> "Free"]],
          error |-> NoError]
    ELSE [store |-> st, error |-> ConditionalCheckFailed]

\* variant: a DeleteCommand with the same condition
UpdateCancelDelete(st, key, fault) ==
    IF fault # NoError THEN [store |-> st, error |-> fault]
    ELSE IF key \in DOMAIN st /\ st[key].availability = "Booked"
    THEN [store |-> [k \in DOMAIN st \ {key} |-> st[k]], error |-> NoError]
    ELSE [store |-> st, error |-> ConditionalCheckFailed]

\* variant: the update expression lacks 'REMOVE booking_person_name'
UpdateCancelKeepName(st, key, fault) ==
    IF fault # NoError THEN [store |-> st, error |-> fault]
    ELSE IF key \in DOMAIN st /\ st[key].availability = "Booked"
    THEN [store |-> [st EXCEPT ![key] =
                        [f \in DOMAIN st[key] |->
                            IF f = "availability" THEN "Free" ELSE st[key][f]]],
          error |-> NoError]
    ELSE [store |-> st, error |-> ConditionalCheckFailed]

\* variant: the condition is 'attribute_exists(carer_id)' instead of 'availability = :booked'
UpdateCancelIfExists(st, key, fault) ==
    IF fault # NoError THEN [store |-> st, error |-> fault]
    ELSE IF key \in DOMAIN st
    THEN [store |-> [st EXCEPT ![key] =
                        [f \in DOMAIN st[key] \ {"booking_person_name"} |->
                            IF f = "availability" THEN "Free"
                            ELSE st[key][f]]],
          error |-> NoError]
    ELSE [store |-> st, error |-> ConditionalCheckFailed]

\* UpdateCommand 'SET availability = :free REMOVE booking_person_name'
\* with ConditionExpression 'availability = :booked'
UpdateCancel(st, key, fault) ==
    IF fault # NoError THEN [store |-> st, error |-> fault]
    ELSE IF key \in DOMAIN st /\ st[key].availability = "Booked"
    THEN [store |-> [st EXCEPT ![key] =
                        [f \in DOMAIN st[key] \ {"booking_person_name"} |->
                            IF f = "availability" THEN "Free"
                            ELSE st[key][f]]],
          error |-> NoError]
    ELSE [store |-> st, error |-> ConditionalCheckFailed]

----------------------------------------------------------------------------
(* The methods of HealthCarerDynamoDB, as functions of the table *)

Return(success, message) == [kind |-> "return", success |-> success, message |-> message]
Throw(name) == [kind |-> "throw", success |-> FALSE, message |-> name]

BookedMessage == "Appointment booked successfully"
SlotUnavailableMessage == "Time slot is already booked or does not exist"
CancelledMessage == "Appointment cancelled successfully"
NoActiveBookingMessage == "No booking found for this time slot"

\* variant: the catch block answers SlotUnavailable for every error
bookAppointmentCatchAll(st, booking, fault) ==
    LET dateTimeSlot == dateTimeSlotOf(booking.date, booking.time_slot)
        resp == UpdateBook(st, <<booking.carer_id, dateTimeSlot>>,
                           booking.person_name, fault)
    IN  IF resp.error = NoError
        THEN [store |-> resp.store, outcome |-> Return(TRUE, BookedMessage)]
        ELSE [store |-> resp.store, outcome |-> Return(FALSE, SlotUnavailableMessage)]

\* variant: a request that the table rejected with an error is sent again
bookAppointmentRetry(st, booking, fault) ==
    LET dateTimeSlot == dateTimeSlotOf(booking.date, booking.time_slot)
        first == UpdateBook(st, <<booking.carer_id, dateTimeSlot>>,
                            booking.person_name, fault)
        resp == IF first.error \in {NoError, ConditionalCheckFailed} THEN first
                ELSE UpdateBook(first.store, <<booking.carer_id, dateTimeSlot>>,
                                booking.person_name, NoError)
    IN  IF resp.error = NoError
        THEN [store |-> resp.store, outcome |-> Return(TRUE, BookedMessage)]
        ELSE IF resp.error = ConditionalCheckFailed
        THEN [store |-> resp.store, outcome |-> Return(FALSE, SlotUnavailableMessage)]
        ELSE [store |-> resp.store, outcome |-> Throw(resp.error)]

bookAppointment(st, booking, fault) ==
    LET dateTimeSlot == dateTimeSlotOf(booking.date, booking.time_slot)
        resp == UpdateBook(st, <<booking.carer_id, dateTimeSlot>>,
                           booking.person_name, fault)
    IN  IF resp.error = NoError
        THEN [store |-> resp.store, outcome |-> Return(TRUE, BookedMessage)]
        ELSE IF resp.error = ConditionalCheckFailed
        THEN [store |-> resp.store, outcome |-> Return(FALSE, SlotUnavailableMessage)]
        ELSE [store |-> resp.store, outcome |-> Throw(resp.error)]

cancelAppointment(st, carer_id, date, time_slot, fault) ==
    LET dateTimeSlot == dateTimeSlotOf(date, time_slot)
        resp == UpdateCancel(st, <<carer_id, dateTimeSlot>>, fault)
    IN  IF resp.error = NoError
        THEN [store |-> resp.store, outcome |-> Return(TRUE, CancelledMessage)]
        ELSE IF resp.error = ConditionalCheckFailed
        THEN [store |-> resp.store, outcome |-> Return(FALSE, NoActiveBookingMessage)]
        ELSE [store |-> resp.store, outcome |-> Throw(resp.error)]

\* begins_with(value, prefix) of a key condition
begins_with(value, prefix) ==
    /\ Len(prefix) <= Len(value)
    /\ SubSeq(value, 1, Len(prefix)) = prefix

Undefined == "undefined"
Truthy(v) == v # Undefined /\ v # ""

ItemsAt(st, keys) == {st[k] : k \in keys}

\* variant: the first branch compares the date attribute with the argument
getAvailabilityExactDate(st, query, fault) ==
    IF fault # NoError THEN Throw(fault)
    ELSE IF Truthy(query.carer_id) /\ Truthy(query.date)
    THEN [kind |-> "return", success |-> TRUE, message |-> "query",
          items |-> ItemsAt(st, {k \in DOMAIN st : /\ k[1] = query.carer_id
                                                   /\ st[k].date = query.date})]
    ELSE IF Truthy(query.carer_id)
    THEN [kind |-> "return", success |-> TRUE, message |-> "query",
          items |-> ItemsAt(st, {k \in DOMAIN st : k[1] = query.carer_id})]
    ELSE [kind |-> "return", success |-> TRUE, message |-> "scan",
          items |-> ItemsAt(st, DOMAIN st)]

\* variant: the key condition of the first branch lacks begins_with
getAvailabilityCarerOnly(st, query, fault) ==
    IF fault # NoError THEN Throw(fault)
    ELSE IF Truthy(query.carer_id)
    THEN [kind |-> "return", success |-> TRUE, message |-> "query",
          items |-> ItemsAt(st, {k \in DOMAIN st : k[1] = query.carer_id})]
    ELSE [kind |-> "return", success |-> TRUE, message |-> "scan",
          items |-> ItemsAt(st, DOMAIN st)]

getAvailability(st, query, fault) ==
    IF fault # NoError THEN Throw(fault)
    ELSE IF Truthy(query.carer_id) /\ Truthy(query.date)
    THEN [kind |-> "return", success |-> TRUE, message |-> "query",
          items |-> ItemsAt(st, {k \in DOMAIN st : /\ k[1] = query.carer_id
                                                   /\ begins_with(k[2], query.date)})]
    ELSE IF Truthy(query.carer_id)
    THEN [kind |-> "return", success |-> TRUE, message |-> "query",
          items |-> ItemsAt(st, {k \in DOMAIN st : k[1] = query.carer_id})]
    ELSE [kind |-> "return", success |-> TRUE, message |-> "scan",
          items |-> ItemsAt(st, DOMAIN st)]

----------------------------------------------------------------------------
(* Requests that callers make *)

\* a slot that the documentation books (Carer1 on 20250725 at 0900) and that
\* initializeTimeSlots never seeds: Carer1 is advertised by GET /api/carers
OffCatalogue == <<"Carer1", "20250725", "0900">>
RequestTriples == Triples \union {OffCatalogue}
\* the MCP handler accepts any string as person_name, the empty one included
PersonNames == {"Alice", "Bob", ""}

Booking(t, name) ==
    [carer_id |-> t[1], date |-> t[2], time_slot |-> t[3], person_name |-> name]
Cancel(t) == [carer_id |-> t[1], date |-> t[2], time_slot |-> t[3]]

Bookings == {Booking(t, name) : t \in RequestTriples, name \in PersonNames}
Cancels == {Cancel(t) : t \in RequestTriples}
Queries ==
    [carer_id : {carers[1], Undefined},
     date : {dates[1], Undefined}]

RequestKey(r) == <<r.carer_id, dateTimeSlotOf(r.date, r.time_slot)>>

InitProcs == 1..NumInit
Callers == 1..NumCallers

IdleInit == [pc |-> "idle", pending |-> {}, swallowed |-> FALSE]
IdleCall == [pc |-> "idle"]
NoCall == [op |-> "none", args |-> <<>>, fault |-> NoError, outcome |-> Return(TRUE, "")]
NoTwice == [returned |-> 0, firstClean |-> TRUE, afterFirst |-> <<>>]

Init ==
    /\ store = <<>>
    /\ inits = [p \in InitProcs |-> IdleInit]
    /\ last = NoCall
    /\ beforeBook = <<>>
    /\ calls = [p \in Callers |-> IdleCall]
    /\ twice = NoTwice

----------------------------------------------------------------------------
(* initializeTimeSlots: every PutCommand is sent in the loop, each is applied *)
(* on its own, every rejection is caught, and Promise.all awaits them all    *)

InitializeStartStep(p) ==
    /\ inits[p].pc = "idle"
    /\ inits' = [inits EXCEPT ![p] =
                    [pc |-> "running", pending |-> Triples, swallowed |-> FALSE]]
    /\ last' = [op |-> "initializeTimeSlots.send", args |-> [proc |-> p],
                fault |-> NoError, outcome |-> Return(TRUE, "")]
    /\ UNCHANGED store

\* variant: the writes are awaited one by one without a catch, so that the
\* first rejected write abandons the writes that remain
InitializePutFailFast(p, t, fault) ==
    /\ inits[p].pc = "running"
    /\ t \in inits[p].pending
    /\ LET resp == PutIfAbsent(store, ItemOfTriple(t), fault)
       IN  /\ store' = resp.store
           /\ inits' = [inits EXCEPT ![p] =
                 [pc |-> "running",
                  pending |-> IF resp.error = NoError
                              THEN inits[p].pending \ {t} ELSE {},
                  swallowed |-> inits[p].swallowed
                                \/ resp.error \notin {NoError, ConditionalCheckFailed}]]
           /\ last' = [op |-> "put", args |-> [proc |-> p, triple |-> t],
                       fault |-> fault,
                       outcome |-> [kind |-> "settled", success |-> resp.error = NoError,
                                    message |-> resp.error]]

InitializePutStep(p, t, fault) ==
    /\ inits[p].pc = "running"
    /\ t \in inits[p].pending
    /\ LET resp == PutIfAbsent(store, ItemOfTriple(t), fault)
       IN  /\ store' = resp.store
           /\ inits' = [inits EXCEPT ![p] =
                 [pc |-> "running",
                  pending |-> inits[p].pending \ {t},
                  swallowed |-> inits[p].swallowed
                                \/ resp.error \notin {NoError, ConditionalCheckFailed}]]
           /\ last' = [op |-> "put", args |-> [proc |-> p, triple |-> t],
                       fault |-> fault,
                       outcome |-> [kind |-> "settled", success |-> resp.error = NoError,
                                    message |-> resp.error]]

\* variant: Promise.race in place of Promise.all, the first settled write ends the wait
InitializeReturnEarly(p) ==
    /\ inits[p].pc = "running"
    /\ inits[p].pending # Triples
    /\ inits' = [inits EXCEPT ![p] = IdleInit]
    /\ last' = [op |-> "initializeTimeSlots",
                args |-> [proc |-> p, swallowed |-> inits[p].swallowed],
                fault |-> NoError, outcome |-> Return(TRUE, "")]
    /\ UNCHANGED store

InitializeReturnStep(p) ==
    /\ inits[p].pc = "running"
    /\ inits[p].pending = {}
    /\ inits' = [inits EXCEPT ![p] = IdleInit]
    /\ last' = [op |-> "initializeTimeSlots",
                args |-> [proc |-> p, swallowed |-> inits[p].swallowed],
                fault |-> NoError, outcome |-> Return(TRUE, "")]
    /\ UNCHANGED store

InitializeStart(p) ==
    InitializeStartStep(p) /\ UNCHANGED <<beforeBook, calls, twice>>

InitializePut(p) ==
    \E t \in Triples, fault \in Faults :
        InitializePutStep(p, t, fault) /\ UNCHANGED <<beforeBook, calls, twice>>

InitializeReturn(p) ==
    InitializeReturnStep(p) /\ UNCHANGED <<beforeBook, calls, twice>>

----------------------------------------------------------------------------
(* bookAppointment, cancelAppointment, getAvailability: one request each *)

BookAppointment ==
    \E booking \in Bookings, fault \in Faults :
        LET r == bookAppointment(store, booking, fault)
            key == RequestKey(booking)
        IN  /\ store' = r.store
            /\ last' = [op |-> "bookAppointment", args |-> booking,
                        fault |-> fault, outcome |-> r.outcome]
            /\ beforeBook' = IF r.outcome.success /\ key \in DOMAIN store
                             THEN (key :> store[key]) @@ beforeBook
                             ELSE beforeBook
            /\ UNCHANGED <<inits, calls, twice>>

CancelAppointment ==
    \E req \in Cancels, fault \in Faults :
        LET r == cancelAppointment(store, req.carer_id, req.date, req.time_slot, fault)
            key == RequestKey(req)
        IN  /\ store' = r.store
            /\ last' = [op |-> "cancelAppointment", args |-> req,
                        fault |-> fault, outcome |-> r.outcome]
            /\ beforeBook' = IF r.outcome.success
                             THEN [k \in DOMAIN beforeBook \ {key} |-> beforeBook[k]]
                             ELSE beforeBook
            /\ UNCHANGED <<inits, calls, twice>>

GetAvailability ==
    \E query \in Queries, fault \in Faults :
        /\ last' = [op |-> "getAvailability", args |-> query,
                    fault |-> fault, outcome |-> getAvailability(store, query, fault)]
        /\ UNCHANGED <<store, inits, beforeBook, calls, twice>>

Next ==
    \/ \E p \in InitProcs : InitializeStart(p)
    \/ \E p \in InitProcs : InitializePut(p)
    \/ \E p \in InitProcs : InitializeReturn(p)
    \/ BookAppointment
    \/ CancelAppointment
    \/ GetAvailability

Spec == Init /\ [][Next]_vars

----------------------------------------------------------------------------
(* Stores that the program reaches, used as starting points of scenarios *)

TripleKey(t) == KeyOf(ItemOfTriple(t))
TripleOfKey(k) == CHOOSE t \in Triples : TripleKey(t) = k

\* the table after an Initialize on an empty table whose writes all succeed
SeededStore == [k \in {TripleKey(t) : t \in Triples} |-> ItemOfTriple(TripleOfKey(k))]

\* the item of triple t as created, or as booked by some person
ItemStates(t) ==
    LET item == ItemOfTriple(t)
        key == KeyOf(item)
    IN  {item} \union
        {UpdateBook(key :> item, key, name, NoError).store[key] : name \in PersonNames}

\* any part of the catalogue seeded, any of the seeded slots booked
PartialStores ==
    UNION {{st \in [{TripleKey(t) : t \in S} -> UNION {ItemStates(t) : t \in S}] :
               \A k \in DOMAIN st : st[k] \in ItemStates(TripleOfKey(k))} :
           S \in SUBSET Triples}

BeforeBookOf(st) ==
    [k \in {j \in DOMAIN st : st[j].availability = "Booked"} |->
        ItemOfTriple(TripleOfKey(k))]

----------------------------------------------------------------------------
(* Scenario: concurrent bookAppointment calls on a seeded table, the table *)
(* serving every request.  A call is sent, later applied by the table.     *)

RaceBookings == {Booking(t, name) : t \in Triples, name \in PersonNames}

IsFree(st, key) == key \in DOMAIN st /\ st[key].availability = "Free"
IsBooked(st, key) == key \in DOMAIN st /\ st[key].availability = "Booked"

RaceInit ==
    /\ store = SeededStore
    /\ inits = [p \in InitProcs |-> IdleInit]
    /\ last = NoCall
    /\ beforeBook = <<>>
    /\ calls = [p \in Callers |-> IdleCall]
    /\ twice = NoTwice

RaceSend(p) ==
    /\ calls[p].pc = "idle"
    /\ \E booking \in RaceBookings :
          calls' = [calls EXCEPT ![p] =
                       [pc |-> "sent", booking |-> booking,
                        startedFree |-> IsFree(store, RequestKey(booking))]]
    /\ UNCHANGED <<store, inits, last, beforeBook, twice>>

\* variant: the call decides on the availability it saw when it started and
\* then writes without a condition
RaceApplyCheckThenAct(p) ==
    /\ calls[p].pc = "sent"
    /\ LET booking == calls[p].booking
           r == IF calls[p].startedFree
                THEN [store |-> UpdateBookIfExists(store, RequestKey(booking),
                                                   booking.person_name, NoError).store,
                      outcome |-> Return(TRUE, BookedMessage)]
                ELSE [store |-> store,
                      outcome |-> Return(FALSE, SlotUnavailableMessage)]
       IN  /\ store' = r.store
           /\ calls' = [calls EXCEPT ![p] =
                           [pc |-> "done", booking |-> booking,
                            startedFree |-> calls[p].startedFree,
                            outcome |-> r.outcome]]
    /\ UNCHANGED <<inits, last, beforeBook, twice>>

RaceApply(p) ==
    /\ calls[p].pc = "sent"
    /\ LET r == bookAppointment(store, calls[p].booking, NoError)
       IN  /\ store' = r.store
           /\ calls' = [calls EXCEPT ![p] =
                           [pc |-> "done", booking |-> calls[p].booking,
                            startedFree |-> calls[p].startedFree,
                            outcome |-> r.outcome]]
    /\ UNCHANGED <<inits, last, beforeBook, twice>>

RaceNext ==
    \/ \E p \in Callers : RaceSend(p)
    \/ \E p \in Callers : RaceApply(p)

SpecRace == RaceInit /\ [][RaceNext]_vars

----------------------------------------------------------------------------
(* Scenario: Initialize called twice in sequence by one caller, on any    *)
(* table the program reaches, each write served or rejected by the table  *)

TwiceInit ==
    /\ store \in PartialStores
    /\ inits = [p \in InitProcs |-> IdleInit]
    /\ last = NoCall
    /\ beforeBook = BeforeBookOf(store)
    /\ calls = [p \in Callers |-> IdleCall]
    /\ twice = NoTwice

TwiceStart ==
    /\ twice.returned < 2
    /\ InitializeStartStep(1)
    /\ UNCHANGED <<beforeBook, calls, twice>>

TwicePut ==
    \E t \in Triples, fault \in Faults :
        InitializePutStep(1, t, fault) /\ UNCHANGED <<beforeBook, calls, twice>>

TwiceReturn ==
    /\ InitializeReturnStep(1)
    /\ twice' = IF twice.returned = 0
                THEN [returned |-> 1, firstClean |-> ~inits[1].swallowed,
                      afterFirst |-> store]
                ELSE [twice EXCEPT !.returned = @ + 1]
    /\ UNCHANGED <<beforeBook, calls>>

TwiceNext == TwiceStart \/ TwicePut \/ TwiceReturn

SpecTwice == TwiceInit /\ [][TwiceNext]_vars

----------------------------------------------------------------------------
(* Scenario: Initialize on an empty table over the whole catalogue, then    *)
(* bookings and queries of the advertised catalogue.  A write is applied    *)
(* before at most SeedWindow - 1 writes that were sent before it, and the   *)
(* table rejects at most one write of the run with a store error.           *)

SeedWindow == 2

Catalogue == Range(promises)
\* the position in promises of the first write that is still to be applied
LowestPending(pending) == CHOOSE i \in DOMAIN promises :
    /\ promises[i] \in pending
    /\ \A j \in 1..(i - 1) : promises[j] \notin pending

\* the carers that GET /api/carers returns and the dates of the documentation
AdvertisedCarers == {"Carer1", "Carer2", "Carer3"}
DocumentedDates == {"20250725", "20250726", "20250727"}
Advertised == AdvertisedCarers \X DocumentedDates \X Range(generateTimeSlots)

SeedTriples == {OffCatalogue, <<"Carer3", "20250727", "1530">>, promises[1]}
SeedBookings == {Booking(t, "Alice") : t \in SeedTriples}
SeedQueries == [carer_id : {"Carer1", carers[1]}, date : {Undefined}]

SeedInit ==
    /\ store = <<>>
    /\ inits = [p \in InitProcs |-> IdleInit]
    /\ last = NoCall
    /\ beforeBook = <<>>
    /\ calls = [p \in Callers |-> IdleCall]
    /\ twice = NoTwice

SeedStart ==
    /\ store = <<>>
    /\ inits[1].pc = "idle"
    /\ inits' = [inits EXCEPT ![1] =
                    [pc |-> "running", pending |-> Catalogue, swallowed |-> FALSE]]
    /\ last' = [op |-> "initializeTimeSlots.send", args |-> [proc |-> 1],
                fault |-> NoError, outcome |-> Return(TRUE, "")]
    /\ UNCHANGED <<store, beforeBook, calls, twice>>

SeedPut ==
    /\ inits[1].pc = "running"
    /\ inits[1].pending # {}
    /\ LET lowest == LowestPending(inits[1].pending)
           window == lowest..Min(lowest + SeedWindow - 1, Len(promises))
       IN  \E i \in window, fault \in Faults :
              /\ fault # NoError => ~inits[1].swallowed
              /\ InitializePutStep(1, promises[i], fault)
          /\ UNCHANGED <<beforeBook, calls, twice>>

SeedReturn ==
    /\ InitializeReturnStep(1)
    /\ twice' = [returned |-> 1, firstClean |-> ~inits[1].swallowed,
                 afterFirst |-> store]
    /\ UNCHANGED <<beforeBook, calls>>

Seeded == twice.returned = 1 /\ inits[1].pc = "idle"

SeedBook ==
    /\ Seeded
    /\ \E booking \in SeedBookings, fault \in Faults :
          LET r == bookAppointment(store, booking, fault)
              key == RequestKey(booking)
          IN  /\ store' = r.store
              /\ last' = [op |-> "bookAppointment", args |-> booking,
                          fault |-> fault, outcome |-> r.outcome]
              /\ beforeBook' = IF r.outcome.success /\ key \in DOMAIN store
                               THEN (key :> store[key]) @@ beforeBook
                               ELSE beforeBook
              /\ UNCHANGED <<inits, calls, twice>>

SeedQuery ==
    /\ Seeded
    /\ \E query \in SeedQueries, fault \in Faults :
          /\ last' = [op |-> "getAvailability", args |-> query,
                      fault |-> fault, outcome |-> getAvailability(store, query, fault)]
          /\ UNCHANGED <<store, inits, beforeBook, calls, twice>>

SeedNext == SeedStart \/ SeedPut \/ SeedReturn \/ SeedBook \/ SeedQuery

SpecSeed == SeedInit /\ [][SeedNext]_vars

----------------------------------------------------------------------------
(* Scenario: concurrent bookAppointment and cancelAppointment calls on a    *)
(* seeded table.  Every caller sends one call, which the table applies      *)
(* later, in any order with the calls of the others.                        *)

MixNames == {"Alice", "Bob"}
MixCalls ==
    {[op |-> "bookAppointment", args |-> Booking(t, name)] : t \in Triples, name \in MixNames}
       \union {[op |-> "cancelAppointment", args |-> Cancel(t)] : t \in Triples}

MixInit ==
    /\ store = SeededStore
    /\ inits = [p \in InitProcs |-> IdleInit]
    /\ last = NoCall
    /\ beforeBook = <<>>
    /\ calls = [p \in Callers |-> IdleCall]
    /\ twice = NoTwice

MixSend(p) ==
    /\ calls[p].pc = "idle"
    /\ \E c \in MixCalls :
          calls' = [calls EXCEPT ![p] = [pc |-> "sent", op |-> c.op, args |-> c.args]]
    /\ UNCHANGED <<store, inits, last, beforeBook, twice>>

MixApply(p) ==
    /\ calls[p].pc = "sent"
    /\ LET args == calls[p].args
           r == IF calls[p].op = "bookAppointment"
                THEN bookAppointment(store, args, NoError)
                ELSE cancelAppointment(store, args.carer_id, args.date,
                                       args.time_slot, NoError)
       IN  /\ store' = r.store
           /\ calls' = [calls EXCEPT ![p] =
                           [pc |-> "done", op |-> calls[p].op, args |-> args,
                            outcome |-> r.outcome]]
           /\ last' = [op |-> calls[p].op, args |-> args, fault |-> NoError,
                       outcome |-> r.outcome]
    /\ UNCHANGED <<inits, beforeBook, twice>>

MixNext == \E p \in Callers : MixSend(p) \/ MixApply(p)

SpecMix == MixInit /\ [][MixNext]_vars

----------------------------------------------------------------------------
(* Scenario: a caller makes a bookAppointment or cancelAppointment call on   *)
(* any table the program reaches and, when the call throws, makes it again.  *)
(* docClient.send rejects either because the table rejected the request or   *)
(* because the answer of the table, which applied the request, was lost.     *)

LostResponse == "TimeoutError"
RetryFaults == Faults \union {LostResponse}

\* one call: what the table holds afterwards and what the caller gets
Attempt(st, c, fault) ==
    LET applied == IF c.op = "bookAppointment"
                   THEN bookAppointment(st, c.args, NoError)
                   ELSE cancelAppointment(st, c.args.carer_id, c.args.date,
                                          c.args.time_slot, NoError)
        rejected == IF c.op = "bookAppointment"
                    THEN bookAppointment(st, c.args, fault)
                    ELSE cancelAppointment(st, c.args.carer_id, c.args.date,
                                           c.args.time_slot, fault)
    IN  IF fault = LostResponse
        THEN [store |-> applied.store, outcome |-> rejected.outcome]
        ELSE rejected

RetryInit ==
    /\ store \in PartialStores
    /\ inits = [p \in InitProcs |-> IdleInit]
    /\ last = NoCall
    /\ beforeBook = BeforeBookOf(store)
    /\ calls = [p \in Callers |-> IdleCall]
    /\ twice = NoTwice

RetryFirst ==
    \E c \in MixCalls, fault \in RetryFaults :
        LET r == Attempt(store, c, fault)
        IN  /\ store' = r.store
            /\ last' = [op |-> c.op, args |-> c.args, fault |-> fault,
                        outcome |-> r.outcome, attempt |-> 1, before |-> store]
            /\ UNCHANGED <<inits, beforeBook, calls, twice>>

RetryAgain ==
    /\ last.op \in {"bookAppointment", "cancelAppointment"}
    /\ last.attempt = 1
    /\ last.outcome.kind = "throw"
    /\ \E fault \in RetryFaults :
          LET r == Attempt(store, [op |-> last.op, args |-> last.args], fault)
          IN  /\ store' = r.store
              /\ last' = [last EXCEPT !.fault = fault, !.outcome = r.outcome,
                                      !.attempt = 2]
              /\ UNCHANGED <<inits, beforeBook, calls, twice>>

RetryNext == RetryFirst \/ RetryAgain

SpecRetry == RetryInit /\ [][RetryNext]_vars

\* SpecTwice where every write that was sent is eventually settled by the
\* table and the continuation of 'await Promise.all' eventually runs
SpecTwiceFair == SpecTwice /\ WF_vars(TwicePut) /\ WF_vars(TwiceReturn)

----------------------------------------------------------------------------
(* The transport adapters: the REST handlers of api-server.ts and the tool *)
(* handlers of server.ts.  Each constructs its own HealthCarerDynamoDB;    *)
(* store is the table that the class names.                                *)

tableName == "healthcarer-appointments"
Adapters == {"rest", "mcp"}

\* variant: the MCP server is given a table of its own
TableOfSplit(via) == IF via = "mcp" THEN "healthcarer-appointments-mcp" ELSE tableName

\* the table that the HealthCarerDynamoDB of an adapter addresses
TableOf(via) == tableName

BookFields == <<"carer_id", "date", "time_slot", "person_name">>
CancelFields == <<"carer_id", "date", "time_slot">>

\* what a caller may put in a field: a value, the empty string, or nothing
RawBookings ==
    [carer_id : {carers[1], "", Undefined},
     date : {dates[1], "", Undefined},
     time_slot : {generateTimeSlots[1], "", Undefined},
     person_name : {"Alice", "", Undefined}]
RawCancels ==
    [carer_id : {carers[1], "", Undefined},
     date : {dates[1], "", Undefined},
     time_slot : {generateTimeSlots[1], "", Undefined}]

\* api-server.ts: if (!carer_id || !date || !time_slot || !person_name)
RestRejects(args, fields) == \E i \in 1..Len(fields) : ~Truthy(args[fields[i]])

\* server.ts: if (!(field in args) || typeof args[field] !== 'string')
McpRejects(args, fields) == \E i \in 1..Len(fields) : args[fields[i]] = Undefined

\* the first field, in the order of requiredFields, that the MCP handler refuses
McpFirstRejected(args, fields) ==
    fields[CHOOSE i \in 1..Len(fields) :
              /\ args[fields[i]] = Undefined
              /\ \A j \in 1..(i - 1) : args[fields[j]] # Undefined]

Rejects(via, args, fields) ==
    IF via = "rest" THEN RestRejects(args, fields) ELSE McpRejects(args, fields)

NoItems == {}
NotCalled == [kind |-> "none", success |-> FALSE, message |-> ""]

\* an HTTP response of the REST server: status and JSON body
RestResponse(status, success, key, message, items) ==
    [via |-> "rest", status |-> status, isError |-> FALSE, success |-> success,
     key |-> key, message |-> message, items |-> items]

\* a tool result of the MCP server: isError and the JSON text
McpResponse(isError, success, key, message, items) ==
    [via |-> "mcp", status |-> 0, isError |-> isError, success |-> success,
     key |-> key, message |-> message, items |-> items]

RestMissing(fields) ==
    IF fields = BookFields
    THEN "Missing required fields: carer_id, date, time_slot, person_name"
    ELSE "Missing required fields: carer_id, date, time_slot"

ValidationResponse(via, args, fields) ==
    IF via = "rest"
    THEN RestResponse(400, FALSE, "error", RestMissing(fields), NoItems)
    ELSE McpResponse(TRUE, FALSE, "error",
                     "Missing or invalid required field: " \o McpFirstRejected(args, fields),
                     NoItems)

\* variant: the catch blocks answer like a refused request
ResultResponseSwallow(via, outcome) ==
    IF via = "rest"
    THEN IF outcome.success
         THEN RestResponse(200, TRUE, "message", outcome.message, NoItems)
         ELSE RestResponse(400, FALSE, "message", outcome.message, NoItems)
    ELSE McpResponse(FALSE, outcome.success, "message", outcome.message, NoItems)

\* the answer of an adapter to the outcome of bookAppointment or cancelAppointment
ResultResponse(via, outcome) ==
    IF via = "rest"
    THEN IF outcome.kind = "throw"
         THEN RestResponse(500, FALSE, "error", outcome.message, NoItems)
         ELSE IF outcome.success
         THEN RestResponse(200, TRUE, "message", outcome.message, NoItems)
         ELSE RestResponse(400, FALSE, "message", outcome.message, NoItems)
    ELSE IF outcome.kind = "throw"
         THEN McpResponse(TRUE, FALSE, "error", outcome.message, NoItems)
         ELSE McpResponse(FALSE, outcome.success, "message", outcome.message, NoItems)

\* the answer of an adapter to the outcome of getAvailability
ItemsResponse(via, outcome) ==
    IF via = "rest"
    THEN IF outcome.kind = "throw"
         THEN RestResponse(500, FALSE, "error", outcome.message, NoItems)
         ELSE RestResponse(200, TRUE, "data", "", outcome.items)
    ELSE IF outcome.kind = "throw"
         THEN McpResponse(TRUE, FALSE, "error", outcome.message, NoItems)
         ELSE McpResponse(FALSE, TRUE, "text", "", outcome.items)

\* the error of a request that reaches DynamoDB: a table that does not exist,
\* an empty partition key, or what the table itself answers
RequestFault(via, carer_id, fault) ==
    IF TableOf(via) # tableName THEN "ResourceNotFoundException"
    ELSE IF carer_id = "" THEN "ValidationException"
    ELSE fault

BookThrough(via, st, args, fault) ==
    IF Rejects(via, args, BookFields)
    THEN [store |-> st, storeCalls |-> 0, outcome |-> NotCalled,
          response |-> ValidationResponse(via, args, BookFields)]
    ELSE LET r == bookAppointment(st, args, RequestFault(via, args.carer_id, fault))
         IN  [store |-> r.store, storeCalls |-> 1, outcome |-> r.outcome,
              response |-> ResultResponse(via, r.outcome)]

CancelThrough(via, st, args, fault) ==
    IF Rejects(via, args, CancelFields)
    THEN [store |-> st, storeCalls |-> 0, outcome |-> NotCalled,
          response |-> ValidationResponse(via, args, CancelFields)]
    ELSE LET r == cancelAppointment(st, args.carer_id, args.date, args.time_slot,
                                    RequestFault(via, args.carer_id, fault))
         IN  [store |-> r.store, storeCalls |-> 1, outcome |-> r.outcome,
              response |-> ResultResponse(via, r.outcome)]

AvailabilityThrough(via, st, query, fault) ==
    LET outcome == getAvailability(st, query,
                                   IF TableOf(via) # tableName
                                   THEN "ResourceNotFoundException" ELSE fault)
    IN  [store |-> st, storeCalls |-> 1, outcome |-> outcome,
         response |-> ItemsResponse(via, outcome)]

AdapterInit ==
    /\ store \in {<<>>, SeededStore}
    /\ inits = [p \in InitProcs |-> IdleInit]
    /\ last = NoCall
    /\ beforeBook = BeforeBookOf(store)
    /\ calls = [p \in Callers |-> IdleCall]
    /\ twice = NoTwice

AdapterStep(op, via, args, fault, r) ==
    /\ r.storeCalls = 0 => fault = NoError
    /\ store' = r.store
    /\ last' = [op |-> op, via |-> via, args |-> args, fault |-> fault,
                storeCalls |-> r.storeCalls, outcome |-> r.outcome,
                response |-> r.response]
    /\ UNCHANGED <<inits, beforeBook, calls, twice>>

AdapterBook(via) ==
    \E args \in RawBookings, fault \in Faults :
        AdapterStep("book", via, args, fault, BookThrough(via, store, args, fault))

AdapterCancel(via) ==
    \E args \in RawCancels, fault \in Faults :
        AdapterStep("cancel", via, args, fault, CancelThrough(via, store, args, fault))

AdapterAvailability(via) ==
    \E query \in Queries, fault \in Faults :
        AdapterStep("availability", via, query, fault,
                    AvailabilityThrough(via, store, query, fault))

AdapterNext ==
    \/ \E via \in Adapters : AdapterBook(via)
    \/ \E via \in Adapters : AdapterCancel(via)
    \/ \E via \in Adapters : AdapterAvailability(via)

SpecAdapter == AdapterInit /\ [][AdapterNext]_vars

----------------------------------------------------------------------------
(* Scenario: getAvailability on a table that holds the catalogue of two    *)
(* carers, two dates and two time slots, any of its slots booked           *)

QueryCarers == {"Carer1", "Carer2"}
QueryDates == {"20250725", "20250726"}
QuerySlots == {"0900", "0930"}
QueryTriples == QueryCarers \X QueryDates \X QuerySlots

\* the item of triple t, Free as created or Booked by Alice
QueryItem(t, booked) ==
    LET item == ItemOfTriple(t)
    IN  IF booked
        THEN UpdateBook(KeyOf(item) :> item, KeyOf(item), "Alice", NoError).store[KeyOf(item)]
        ELSE item

QueryStores ==
    {[k \in {TripleKey(t) : t \in QueryTriples} |->
         LET t == CHOOSE u \in QueryTriples : TripleKey(u) = k
         IN  QueryItem(t, t \in B)] : B \in SUBSET QueryTriples}

\* a carer or date that is stored, one that is not, a prefix of the stored
\* dates, the empty string of '?carer_id=', and no argument at all
QueryArgs ==
    [carer_id : QueryCarers \union {"Carer3", "", Undefined},
     date : QueryDates \union {"20250727", "2025", "", Undefined}]

QueryInit ==
    /\ store \in QueryStores
    /\ inits = [p \in InitProcs |-> IdleInit]
    /\ last = NoCall
    /\ beforeBook = <<>>
    /\ calls = [p \in Callers |-> IdleCall]
    /\ twice = NoTwice

\* variant: the read is followed by a DeleteCommand for each returned item
QueryStepConsume ==
    \E query \in QueryArgs, fault \in Faults :
        LET outcome == getAvailability(store, query, fault)
            read == IF outcome.kind = "return" THEN outcome.items ELSE {}
        IN  /\ last' = [op |-> "getAvailability", args |-> query,
                        fault |-> fault, outcome |-> outcome]
            /\ store' = [k \in {j \in DOMAIN store : store[j] \notin read} |-> store[k]]
            /\ UNCHANGED <<inits, beforeBook, calls, twice>>

QueryStep ==
    \E query \in QueryArgs, fault \in Faults :
        /\ last' = [op |-> "getAvailability", args |-> query,
                    fault |-> fault, outcome |-> getAvailability(store, query, fault)]
        /\ UNCHANGED <<store, inits, beforeBook, calls, twice>>

QueryNext == QueryStep

SpecQuery == QueryInit /\ [][QueryNext]_vars

----------------------------------------------------------------------------
(* Properties.  Under Spec every step sets last to the request or call it *)
(* completed, so last' names the step and store, store' are the table     *)
(* before and after it.                                                   *)

LastKey == RequestKey(last.args)
Booked(op) == op = "bookAppointment"
Cancelled(op) == op = "cancelAppointment"

\* the calls of the race on key k that were sent while the slot was Free
RaceOn(k) ==
    {p \in Callers : /\ calls[p].pc # "idle"
                     /\ RequestKey(calls[p].booking) = k
                     /\ calls[p].startedFree}
Winners(B) == {p \in B : calls[p].pc = "done"
                         /\ calls[p].outcome = Return(TRUE, BookedMessage)}
Losers(B) == {p \in B : calls[p].pc = "done"
                        /\ calls[p].outcome = Return(FALSE, SlotUnavailableMessage)}

\* C1: of the N >= 1 concurrent bookAppointment calls on one slot that were
\* all sent while the slot was Free, the table serving every request, at
\* most one has succeeded at any moment, and once all N have completed
\* exactly one has returned success and the other N - 1 have returned
\* SlotUnavailable, whatever the order in which the table applied them.
C1_ExactlyOneBookingWins ==
    \A k \in DOMAIN store :
        LET B == RaceOn(k)
        IN  /\ Cardinality(Winners(B)) <= 1
            /\ (B # {} /\ \A p \in B : calls[p].pc = "done")
                  => /\ Cardinality(Winners(B)) = 1
                     /\ Cardinality(Losers(B)) = Cardinality(B) - 1

C1_Witness ==
    \E k \in DOMAIN store :
        /\ Cardinality(RaceOn(k)) >= 3
        /\ \A p \in RaceOn(k) : calls[p].pc = "done"
        /\ Cardinality(Losers(RaceOn(k))) >= 2

\* C2: a bookAppointment on a slot that is Booked (by Alice, say, no cancel
\* having intervened) does not succeed, returns {success: false, "Time slot
\* is already booked or does not exist"} when the table serves the request,
\* and leaves the slot Booked with the name it had.
C2_DoubleBookFails ==
    [][(Booked(last'.op) /\ IsBooked(store, RequestKey(last'.args)))
          => /\ ~last'.outcome.success
             /\ last'.fault = NoError
                   => last'.outcome = Return(FALSE, SlotUnavailableMessage)
             /\ store' = store
             /\ store'[RequestKey(last'.args)].availability = "Booked"
             /\ store'[RequestKey(last'.args)].booking_person_name
                   = store[RequestKey(last'.args)].booking_person_name]_vars

C2_Witness ==
    /\ Booked(last.op)
    /\ last.args.person_name = "Bob"
    /\ last.outcome = Return(FALSE, SlotUnavailableMessage)
    /\ IsBooked(store, LastKey)
    /\ store[LastKey].booking_person_name = "Alice"

\* C3: a successful cancelAppointment leaves the slot's item identical to the
\* item as it was before the booking that it cancels: availability Free, no
\* booking_person_name attribute, every other attribute as before.
C3_BookCancelRoundTrip ==
    [][(Cancelled(last'.op) /\ last'.outcome.success)
          => LET k == RequestKey(last'.args)
             IN  /\ k \in DOMAIN beforeBook
                 /\ k \in DOMAIN store'
                 /\ store'[k] = beforeBook[k]
                 /\ store'[k].availability = "Free"
                 /\ ~HasName(store'[k])]_vars

C3_Witness ==
    /\ Cancelled(last.op)
    /\ last.outcome = Return(TRUE, CancelledMessage)
    /\ LastKey \in DOMAIN store
    /\ store[LastKey] = NewItem(last.args.carer_id, last.args.date, last.args.time_slot)

\* C4: a cancelAppointment on a slot that is Free changes no item of the table
\* and does not succeed; when the table serves the request it returns
\* {success: false, "No booking found for this time slot"}.
C4_CancelFreeFails ==
    [][(Cancelled(last'.op) /\ IsFree(store, RequestKey(last'.args)))
          => /\ store' = store
             /\ ~last'.outcome.success
             /\ last'.fault = NoError
                   => last'.outcome = Return(FALSE, NoActiveBookingMessage)]_vars

C4_Witness ==
    /\ Cancelled(last.op)
    /\ last.outcome = Return(FALSE, NoActiveBookingMessage)
    /\ IsFree(store, LastKey)

\* C5: no write of initializeTimeSlots changes the availability or the
\* booking_person_name of an item that exists: a Booked slot is Booked with
\* the same name after the write, however Initialize calls, books and
\* cancels interleave.
C5_InitializeKeepsExisting ==
    [][last'.op = "put"
          => \A k \in DOMAIN store :
                /\ k \in DOMAIN store'
                /\ store'[k].availability = store[k].availability
                /\ HasName(store'[k]) = HasName(store[k])
                /\ HasName(store[k])
                      => store'[k].booking_person_name = store[k].booking_person_name]_vars

C5_Witness ==
    /\ last.op = "put"
    /\ last.fault = NoError
    /\ IsBooked(store, TripleKey(last.args.triple))
    /\ store[TripleKey(last.args.triple)].booking_person_name = "Alice"

C7_NameIffBooked ==
    \A k \in DOMAIN store : HasName(store[k]) <=> store[k].availability = "Booked"

C7_Witness ==
    \E k \in DOMAIN store :
        /\ IsBooked(store, k)
        /\ HasName(store[k])
        /\ store[k].booking_person_name = ""

\* C8: an Initialize call one of whose writes was rejected with a store
\* error (anything but 'already exists') does not return normally: it
\* throws to its caller.
C8_InitializeSurfacesStoreError ==
    [][(last'.op = "initializeTimeSlots" /\ last'.args.swallowed)
          => last'.outcome.kind = "throw"]_vars

\* C9: bookAppointment and cancelAppointment return {success: false, message}
\* only when the table served the request and its condition failed; a
\* request rejected with a store error makes the call throw that error.
C9_StoreErrorIsThrown ==
    [][(Booked(last'.op) \/ Cancelled(last'.op))
          => /\ last'.fault # NoError => last'.outcome = Throw(last'.fault)
             /\ (last'.outcome.kind = "return" /\ ~last'.outcome.success)
                   => /\ last'.fault = NoError
                      /\ Booked(last'.op)
                            => /\ ~IsFree(store, RequestKey(last'.args))
                               /\ last'.outcome.message = SlotUnavailableMessage
                      /\ Cancelled(last'.op)
                            => /\ ~IsBooked(store, RequestKey(last'.args))
                               /\ last'.outcome.message = NoActiveBookingMessage]_vars

C9_Witness ==
    /\ Booked(last.op)
    /\ last.fault \in StoreErrors
    /\ last.outcome = Throw(last.fault)
    /\ IsFree(store, LastKey)

\* C10: a book or a cancel on a key that has no item creates none and changes
\* nothing; when the table serves the request, book returns SlotUnavailable
\* and cancel returns NoActiveBooking.
C10_AbsentKeyFails ==
    [][((Booked(last'.op) \/ Cancelled(last'.op))
            /\ RequestKey(last'.args) \notin DOMAIN store)
          => /\ DOMAIN store' = DOMAIN store
             /\ store' = store
             /\ ~last'.outcome.success
             /\ last'.fault = NoError
                   => last'.outcome =
                         IF Booked(last'.op)
                         THEN Return(FALSE, SlotUnavailableMessage)
                         ELSE Return(FALSE, NoActiveBookingMessage)]_vars

C10_Witness ==
    /\ Booked(last.op)
    /\ last.args = Booking(OffCatalogue, "Alice")
    /\ last.outcome = Return(FALSE, SlotUnavailableMessage)
    /\ LastKey \notin DOMAIN store
    /\ store = SeededStore

----------------------------------------------------------------------------
(* Properties of the adapters.  Under SpecAdapter every step sets last to *)
(* the request that an adapter handled and to its response.               *)

\* C11: a book or cancel request, through the REST or the MCP adapter, one
\* of whose required fields is missing or empty is rejected before any
\* store access: no store call is issued and no item changes.
C11_EmptyOrMissingFieldRejected ==
    [][(last'.op \in {"book", "cancel"}
           /\ \E f \in DOMAIN last'.args : last'.args[f] \in {"", Undefined})
          => /\ last'.storeCalls = 0
             /\ last'.outcome = NotCalled
             /\ store' = store]_vars

\* C20: once a book through one adapter has succeeded, a query through the
\* other adapter for that carer and date returns the slot as Booked with
\* the booker's name, and a book of the same slot through the other
\* adapter does not succeed and changes nothing: the two adapters address
\* the same table.
C20_AdaptersShareTable ==
    (last.op = "book" /\ last.storeCalls = 1 /\ last.response.success)
       => \A via \in Adapters \ {last.via} :
             LET query == [carer_id |-> last.args.carer_id, date |-> last.args.date]
                 seen == AvailabilityThrough(via, store, query, NoError)
                 second == BookThrough(via, store,
                                       [last.args EXCEPT !.person_name = "Bob"], NoError)
             IN  /\ \E item \in seen.response.items :
                       /\ KeyOf(item) = LastKey
                       /\ item.availability = "Booked"
                       /\ item.booking_person_name = last.args.person_name
                 /\ second.storeCalls = 1
                 /\ ~second.response.success
                 /\ second.store = store

C20_Witness ==
    /\ last.op = "book"
    /\ last.via = "rest"
    /\ last.response = RestResponse(200, TRUE, "message", BookedMessage, NoItems)
    /\ IsBooked(store, LastKey)
    /\ store[LastKey].booking_person_name = "Alice"

----------------------------------------------------------------------------
(* Properties of getAvailability, under SpecQuery *)

Served(op) == last.op = op /\ last.fault = NoError
IsDate(v) == v # Undefined /\ Len(v) = 8
StoredItems == {store[k] : k \in DOMAIN store}

C13_DateOnlyQuery ==
    (Served("getAvailability") /\ ~Truthy(last.args.carer_id) /\ IsDate(last.args.date))
       => last.outcome.items = {i \in StoredItems : i.date = last.args.date}

----------------------------------------------------------------------------
(* Properties of the catalogue and of Initialize on an empty table, under   *)
(* SpecSeed                                                                 *)

IsDigit(c) == \E d \in 0..9 : ToString(d) = c
DigitOf(c) == CHOOSE d \in 0..9 : ToString(d) = c
IsHHMM(s) == Len(s) = 4 /\ \A i \in 1..4 : IsDigit(SubSeq(s, i, i))
TwoDigits(s, i) == 10 * DigitOf(SubSeq(s, i, i)) + DigitOf(SubSeq(s, i + 1, i + 1))
MinuteOfDay(s) == MinutesPerHour * TwoDigits(s, 1) + TwoDigits(s, 3)

InitializeReturned == last.op = "initializeTimeSlots" /\ ~last.args.swallowed

\* C14: generateTimeSlots produces exactly 14 distinct strings of 4 digits
\* HHMM, the first "0900" and the last "1530", strictly increasing as times
\* of day, each with minute 00 or 30; these are the time slots that
\* Initialize stores.
C14_FourteenTimeSlots ==
    LET slots == generateTimeSlots
    IN  /\ Len(slots) = 14
        /\ Cardinality(Range(slots)) = 14
        /\ \A i \in 1..Len(slots) : IsHHMM(slots[i])
        /\ slots[1] = "0900"
        /\ slots[Len(slots)] = "1530"
        /\ \A i \in 1..(Len(slots) - 1) : MinuteOfDay(slots[i]) < MinuteOfDay(slots[i + 1])
        /\ \A i \in 1..Len(slots) : SubSeq(slots[i], 3, 4) \in {"00", "30"}
        /\ InitializeReturned
              => {store[k].time_slot : k \in DOMAIN store} = Range(slots)

C14_Witness ==
    /\ InitializeReturned
    /\ Cardinality({store[k].time_slot : k \in DOMAIN store}) = 14
    /\ \E k \in DOMAIN store : store[k].time_slot = "0900"
    /\ \E k \in DOMAIN store : store[k].time_slot = "1530"

\* C15: when Initialize returns on a table that was empty and rejected none
\* of its writes, the table holds exactly 126 records, one for each triple
\* of the 3 carers, 3 dates and 14 time slots, each Free and without
\* booking_person_name.
C15_SeedsWholeCatalogue ==
    InitializeReturned
       => /\ Len(carers) = 3 /\ Len(dates) = 3 /\ Len(generateTimeSlots) = 14
          /\ Cardinality(DOMAIN store) = 126
          /\ \A c \in Range(carers), d \in Range(dates), s \in Range(generateTimeSlots) :
                Cardinality({k \in DOMAIN store : /\ store[k].carer_id = c
                                                  /\ store[k].date = d
                                                  /\ store[k].time_slot = s}) = 1
          /\ \A k \in DOMAIN store : /\ store[k].availability = "Free"
                                     /\ ~HasName(store[k])

C15_Witness ==
    /\ InitializeReturned
    /\ Cardinality(DOMAIN store) = 126
    /\ <<"doctor3", "20250730#1530">> \in DOMAIN store
    /\ store[<<"Doctor1", "20250728#0900">>].availability = "Free"

\* C16: after Initialize on an empty table whose writes all succeeded, a
\* booking of a slot of the advertised catalogue (a carer of GET /api/carers,
\* a documented date, a generated time slot) fails only if that slot was
\* booked before, and a query for an advertised carer returns some slot.
C16_AdvertisedCatalogueBookable ==
    (Seeded /\ twice.firstClean /\ last.fault = NoError)
       => /\ (/\ last.op = "bookAppointment"
              /\ <<last.args.carer_id, last.args.date, last.args.time_slot>> \in Advertised
              /\ ~last.outcome.success)
                => RequestKey(last.args) \in DOMAIN beforeBook
          /\ (last.op = "getAvailability" /\ last.args.carer_id \in AdvertisedCarers)
                => last.outcome.items # {}

----------------------------------------------------------------------------
(* Properties of the records, under Spec *)

IdentityFields == {"carer_id", "date_time_slot", "date", "time_slot"}
MutableFields == {"availability", "booking_person_name"}

\* C17: no step changes carer_id, date_time_slot, date or time_slot of a
\* record that exists; a record changes only in a bookAppointment or
\* cancelAppointment with the record's key, and only in availability and
\* booking_person_name; no step of Initialize changes an existing record.
C17_IdentityFieldsFrozen ==
    [][\A k \in DOMAIN store \cap DOMAIN store' :
          /\ IdentityFields \subseteq DOMAIN store'[k]
          /\ \A f \in IdentityFields : store'[k][f] = store[k][f]
          /\ DOMAIN store'[k] \subseteq IdentityFields \union MutableFields
          /\ store'[k] # store[k]
                => /\ Booked(last'.op) \/ Cancelled(last'.op)
                   /\ k = RequestKey(last'.args)]_vars

C17_Witness ==
    /\ Cancelled(last.op)
    /\ last.outcome.success
    /\ LastKey \in DOMAIN store
    /\ store[LastKey] = ItemOfTriple(<<last.args.carer_id, last.args.date, last.args.time_slot>>)
    /\ \E k \in DOMAIN store : k # LastKey /\ store[k].availability = "Booked"

\* C18: a record is never deleted: no step of initialize, query, book or
\* cancel removes a key of the table, and after a successful cancel the
\* record of the request is in the table with availability = Free.
C18_NeverDeleted ==
    [][/\ DOMAIN store \subseteq DOMAIN store'
       /\ (Cancelled(last'.op) /\ last'.outcome.success)
             => /\ RequestKey(last'.args) \in DOMAIN store'
                /\ store'[RequestKey(last'.args)].availability = "Free"]_vars

C18_Witness ==
    /\ Cancelled(last.op)
    /\ last.outcome = Return(TRUE, CancelledMessage)
    /\ Cardinality(DOMAIN store) = MaxTriples
    /\ store[LastKey].availability = "Free"

\* C19: every record of the table has date_time_slot = date + "#" + time_slot
\* over its own fields and is stored under (carer_id, date_time_slot); a
\* record that a book or cancel changes is the one under the key
\* (carer_id, date + "#" + time_slot) of the request's fields, and its
\* carer_id, date and time_slot equal the request's.
C19_KeyDerivation ==
    [][/\ \A k \in DOMAIN store' :
             /\ store'[k].date_time_slot = store'[k].date \o "#" \o store'[k].time_slot
             /\ k = <<store'[k].carer_id, store'[k].date_time_slot>>
       /\ (Booked(last'.op) \/ Cancelled(last'.op))
             => \A k \in DOMAIN store \cap DOMAIN store' :
                   store'[k] # store[k]
                      => /\ k = <<last'.args.carer_id,
                                  last'.args.date \o "#" \o last'.args.time_slot>>
                         /\ store[k].carer_id = last'.args.carer_id
                         /\ store[k].date = last'.args.date
                         /\ store[k].time_slot = last'.args.time_slot]_vars

C19_Witness ==
    /\ Booked(last.op)
    /\ last.outcome.success
    /\ last.args.person_name = "Bob"
    /\ store[LastKey].date_time_slot = "20250728#0930"
    /\ store[LastKey].booking_person_name = "Bob"

----------------------------------------------------------------------------
(* Properties of the adapters' answers, under SpecAdapter *)

Refusals == {SlotUnavailableMessage, NoActiveBookingMessage}
StoreFailed == last.storeCalls = 1 /\ last.fault # NoError

\* C21: a store failure during a query, book or cancel is answered with
\* HTTP 500 by the REST adapter and with isError = true by the MCP adapter;
\* a refused book or cancel (slot unavailable, no active booking) is answered
\* with HTTP 400 by REST and with a tool result that is not an error by MCP,
\* both carrying success = false and the message, so the two kinds of answer
\* differ in each adapter.
C21_StoreFailureSurfaces ==
    last.op \in {"book", "cancel", "availability"}
       => /\ StoreFailed
                => /\ last.outcome.kind = "throw"
                   /\ ~last.response.success
                   /\ last.via = "rest" => last.response.status = 500
                   /\ last.via = "mcp" => last.response.isError
          /\ (last.storeCalls = 1 /\ last.outcome.kind = "return" /\ ~last.outcome.success)
                => /\ last.outcome.message \in Refusals
                   /\ last.response.key = "message"
                   /\ last.response.message = last.outcome.message
                   /\ ~last.response.success
                   /\ last.via = "rest" => last.response.status = 400
                   /\ last.via = "mcp" => ~last.response.isError

C21_Witness ==
    /\ last.op = "cancel"
    /\ last.via = "mcp"
    /\ StoreFailed
    /\ last.response.isError
    /\ last.response.message = "ProvisionedThroughputExceededException"

----------------------------------------------------------------------------
(* Properties of the writes of Initialize, under SpecTwice *)

Settled(p) == last'.op = "put" /\ last'.args.proc = p
Accepted == {NoError, ConditionalCheckFailed}

\* C22: Initialize sends the write of every triple; a write that fails, with
\* 'already exists' or with a store error, removes only itself from the
\* writes that are awaited and leaves the others to be applied; a triple
\* whose write succeeded or whose record existed is in the table from then
\* on, and Initialize returns only when no write is left.
C22_WritesAreIndependent ==
    [][\A p \in InitProcs :
          /\ (inits[p].pc = "idle" /\ inits'[p].pc = "running")
                => inits'[p].pending = Triples
          /\ Settled(p)
                => /\ inits'[p].pc = "running"
                   /\ inits'[p].pending = inits[p].pending \ {last'.args.triple}
                   /\ last'.outcome.message \in Accepted
                         => TripleKey(last'.args.triple) \in DOMAIN store'
          /\ DOMAIN store \subseteq DOMAIN store'
          /\ (inits[p].pc = "running" /\ inits'[p].pc = "idle")
                => inits[p].pending = {}]_vars

C22_Witness ==
    /\ last.op = "initializeTimeSlots"
    /\ last.args.swallowed
    /\ TripleKey(promises[1]) \notin DOMAIN store
    /\ TripleKey(promises[2]) \in DOMAIN store

----------------------------------------------------------------------------
(* Properties of the writes of book and cancel, under SpecAdapter *)

\* the error with which the table answers the request of the last call
LastFault == RequestFault(last'.via, last'.args.carer_id, last'.fault)

\* C23: a bookAppointment or cancelAppointment call sends one conditional
\* write and no second one: the table after the call is the table after
\* that one write, and when the write fails its condition or is rejected
\* with a store error the call ends with the table unchanged, answering
\* success = false in the first case and throwing the error in the second.
C23_OneConditionalWrite ==
    [][/\ (last'.op = "book" /\ last'.storeCalls = 1)
             => LET w == UpdateBook(store, RequestKey(last'.args),
                                    last'.args.person_name, LastFault)
                IN  /\ store' = w.store
                    /\ w.error = ConditionalCheckFailed
                          => store' = store /\ last'.outcome = Return(FALSE, SlotUnavailableMessage)
                    /\ w.error \notin {NoError, ConditionalCheckFailed}
                          => store' = store /\ last'.outcome = Throw(w.error)
       /\ (last'.op = "cancel" /\ last'.storeCalls = 1)
             => LET w == UpdateCancel(store, RequestKey(last'.args), LastFault)
                IN  /\ store' = w.store
                    /\ w.error = ConditionalCheckFailed
                          => store' = store /\ last'.outcome = Return(FALSE, NoActiveBookingMessage)
                    /\ w.error \notin {NoError, ConditionalCheckFailed}
                          => store' = store /\ last'.outcome = Throw(w.error)
       /\ last'.storeCalls \in {0, 1}]_vars

C23_Witness ==
    /\ last.op = "book"
    /\ last.storeCalls = 1
    /\ last.fault \in StoreErrors
    /\ last.outcome.kind = "throw"
    /\ LastKey \in DOMAIN store
    /\ store[LastKey].availability = "Free"

----------------------------------------------------------------------------
(* Properties of the states of a record, under Spec *)

AvailabilityValues == {"Free", "Booked"}

\* C24: in every state that a step reaches, the availability of every record
\* is Free or Booked, and a record that the step created is Free and has no
\* booking_person_name.
C24_FreeOrBooked ==
    [][\A k \in DOMAIN store' :
          /\ store'[k].availability \in AvailabilityValues
          /\ k \notin DOMAIN store
                => store'[k].availability = "Free" /\ ~HasName(store'[k])]_vars

C24_Witness ==
    /\ last.op = "put"
    /\ last.outcome.success
    /\ store[TripleKey(last.args.triple)].availability = "Free"
    /\ \E k \in DOMAIN store : store[k].availability = "Booked"

\* C25: no state of a slot is terminal: in every reachable state, a record
\* that is Booked can be cancelled by a step that leaves it Free, and a
\* record that is Free can be booked, by either person, by a step that
\* leaves it Booked; so from every state both states of the slot are
\* reachable, any number of times.
C25_NoTerminalState ==
    \A k \in DOMAIN store :
       /\ IsBooked(store, k) => ENABLED (CancelAppointment /\ IsFree(store', k))
       /\ IsFree(store, k)
             => \A name \in {"Alice", "Bob"} :
                   ENABLED (/\ BookAppointment
                            /\ IsBooked(store', k)
                            /\ store'[k].booking_person_name = name)

C25_Witness ==
    /\ Cancelled(last.op)
    /\ last.outcome.success
    /\ IsFree(store, LastKey)
    /\ ENABLED (BookAppointment /\ IsBooked(store', LastKey)
                   /\ store'[LastKey].booking_person_name = "Bob")

----------------------------------------------------------------------------
(* Properties of the completion of Initialize, under SpecTwiceFair *)

\* C26: Initialize sends the writes of all triples in the step that starts
\* it, before it waits for any of them; it returns only when every write has
\* settled, with success or failure; and when every write that was sent is
\* eventually settled, an Initialize that is running eventually returns.
C26_InitializeReturns ==
    /\ [][(inits[1].pc = "idle" /\ inits'[1].pc = "running")
             => inits'[1].pending = Triples /\ store' = store]_vars
    /\ [][(inits[1].pc = "running" /\ inits'[1].pc = "idle")
             => inits[1].pending = {}]_vars
    /\ (inits[1].pc = "running") ~> (inits[1].pc = "idle")

C26_Witness ==
    /\ last.op = "initializeTimeSlots"
    /\ twice.returned = 2
    /\ inits[1].pc = "idle"
    /\ {TripleKey(t) : t \in Triples} \subseteq DOMAIN store

----------------------------------------------------------------------------
(* Properties of the prefix match of getAvailability, under SpecQuery *)

ProperPrefixOfStoredDate(d) ==
    \E i \in StoredItems : begins_with(i.date, d) /\ i.date # d

\* C27: with a carer_id and a date, getAvailability returns the stored slots
\* of that carer whose date_time_slot starts with the date string, and only
\* those; when the date argument is a proper prefix of a stored date of the
\* carer, the result holds slots whose date field differs from the argument.
C27_DatePrefixMatch ==
    (Served("getAvailability") /\ Truthy(last.args.carer_id) /\ Truthy(last.args.date))
       => LET q == last.args
              items == last.outcome.items
          IN  /\ \A i \in items : /\ i.carer_id = q.carer_id
                                  /\ begins_with(i.date_time_slot, q.date)
              /\ items = {i \in StoredItems : /\ i.carer_id = q.carer_id
                                              /\ begins_with(i.date_time_slot, q.date)}
              /\ (ProperPrefixOfStoredDate(q.date) /\ q.carer_id \in QueryCarers)
                    => /\ items # {}
                       /\ \A i \in items : i.date # q.date

C27_Witness ==
    /\ Served("getAvailability")
    /\ last.args = [carer_id |-> "Carer1", date |-> "2025"]
    /\ Cardinality(last.outcome.items) = 4
    /\ \E i \in last.outcome.items : i.date = "20250726"

----------------------------------------------------------------------------
(* Properties of concurrent book and cancel calls, under SpecMix *)

Succeeded(op, k) ==
    {p \in Callers : /\ calls[p].pc = "done"
                     /\ calls[p].op = op
                     /\ RequestKey(calls[p].args) = k
                     /\ calls[p].outcome.success}
Balance(k) ==
    Cardinality(Succeeded("bookAppointment", k))
       - Cardinality(Succeeded("cancelAppointment", k))

\* C28: for every slot, in every interleaving of the concurrent book and
\* cancel calls, the number of successful books minus the number of
\* successful cancels is 0 or 1, and it is 1 exactly when the slot is
\* Booked: the successful operations on a slot alternate book, cancel,
\* book, ..., starting with a book.
C28_BookCancelAlternate ==
    \A k \in DOMAIN store :
       /\ Balance(k) \in {0, 1}
       /\ Balance(k) = 1 <=> IsBooked(store, k)

C28_Witness ==
    \E k \in DOMAIN store :
       /\ Cardinality(Succeeded("bookAppointment", k)) = 2
       /\ Cardinality(Succeeded("cancelAppointment", k)) = 1
       /\ IsBooked(store, k)

----------------------------------------------------------------------------
(* Properties of a booking while it lasts, under Spec *)

CancelSucceedsOn(k) ==
    Cancelled(last'.op) /\ last'.outcome.success /\ RequestKey(last'.args) = k

\* C29: a slot that is Booked with booking_person_name = p is Booked with
\* name p after every step that is not a successful cancel of that slot: no
\* book (of that slot by anyone, or of another slot), no write of
\* Initialize, no query and no cancel of another slot changes its record.
C29_BookingLastsUntilCancel ==
    [][\A k \in DOMAIN store :
          (IsBooked(store, k) /\ ~CancelSucceedsOn(k))
             => /\ IsBooked(store', k)
                /\ store'[k].booking_person_name = store[k].booking_person_name
                /\ store'[k] = store[k]]_vars

C29_Witness ==
    /\ Booked(last.op)
    /\ last.args.person_name = "Bob"
    /\ last.fault = NoError
    /\ ~last.outcome.success
    /\ IsBooked(store, LastKey)
    /\ store[LastKey].booking_person_name = "Alice"

----------------------------------------------------------------------------
(* Properties of operations on different slots, under SpecMix *)

\* the call c made on table st, the table serving the request
Perform(st, c) ==
    IF c.op = "bookAppointment"
    THEN bookAppointment(st, c.args, NoError)
    ELSE cancelAppointment(st, c.args.carer_id, c.args.date, c.args.time_slot, NoError)

\* C30: operations on different slots are independent: a book or cancel
\* changes no record but the one of its own slot, and from every reachable
\* table a call on slot s1 and a call on slot s2 # s1 give the same two
\* results and the same final table whichever of them the table applies
\* first.
C30_DifferentSlotsIndependent ==
    /\ [][\A k \in DOMAIN store :
             (Booked(last'.op) \/ Cancelled(last'.op)) /\ k # RequestKey(last'.args)
                => k \in DOMAIN store' /\ store'[k] = store[k]]_vars
    /\ [](\A c1, c2 \in MixCalls :
             RequestKey(c1.args) # RequestKey(c2.args)
                => LET first1 == Perform(store, c1)
                       then2 == Perform(first1.store, c2)
                       first2 == Perform(store, c2)
                       then1 == Perform(first2.store, c1)
                   IN  /\ then2.store = then1.store
                       /\ first1.outcome = then1.outcome
                       /\ first2.outcome = then2.outcome)

C30_Witness ==
    \E p, q \in Callers :
       /\ calls[p].pc = "done" /\ calls[q].pc = "done"
       /\ RequestKey(calls[p].args) # RequestKey(calls[q].args)
       /\ calls[p].op = "bookAppointment" /\ calls[p].outcome.success
       /\ calls[q].op = "cancelAppointment" /\ calls[q].outcome.success

----------------------------------------------------------------------------
(* Properties of a call that throws, under SpecRetry *)

\* C31: a bookAppointment or cancelAppointment call that throws a store
\* error leaves the table as it was before the call, and the same call made
\* again after it returns, when it returns, what the first attempt would
\* have returned on the table it started from.
C31_StoreErrorLeavesSlot ==
    [][(Booked(last'.op) \/ Cancelled(last'.op))
          => /\ last'.outcome.kind = "throw" => store' = store
             /\ (last'.attempt = 2 /\ last'.outcome.kind = "return")
                   => last'.outcome =
                         Attempt(last'.before, [op |-> last'.op, args |-> last'.args],
                                 NoError).outcome]_vars

\* the table st with the booking of key k made by name instead
BookedBy(st, k, name) == [st EXCEPT ![k].booking_person_name = name]

\* C32: a cancelAppointment request carries carer_id, date and time_slot and
\* no person name; when the table serves it and the slot is Booked it
\* succeeds and leaves the slot Free, whoever booked the slot: with any
\* other name stored in the record the result and the table afterwards are
\* the same.
C32_AnyoneCancels ==
    [][(Cancelled(last'.op) /\ last'.fault = NoError
           /\ IsBooked(store, RequestKey(last'.args)))
          => LET k == RequestKey(last'.args)
                 a == last'.args
             IN  /\ DOMAIN a = {"carer_id", "date", "time_slot"}
                 /\ last'.outcome = Return(TRUE, CancelledMessage)
                 /\ IsFree(store', k)
                 /\ \A name \in PersonNames :
                       LET r == cancelAppointment(BookedBy(store, k, name), a.carer_id,
                                                  a.date, a.time_slot, NoError)
                       IN  r.outcome = last'.outcome /\ r.store = store']_vars

C32_Witness ==
    /\ Cancelled(last.op)
    /\ last.fault = NoError
    /\ last.outcome = Return(TRUE, CancelledMessage)
    /\ last.before[LastKey].booking_person_name = "Bob"
    /\ IsFree(store, LastKey)

----------------------------------------------------------------------------
(* Properties of the effect of getAvailability, under SpecQuery *)

Reads == {"query", "scan"}

\* C33: getAvailability is read-only: for every combination of carer_id and
\* date arguments, present, empty or absent, the call sends one read, a
\* query when carer_id is given and a scan otherwise, and the table after
\* the call holds the same records as before.
C33_QueryIsReadOnly ==
    [][last'.op = "getAvailability"
          => /\ store' = store
             /\ last'.outcome.kind = "return"
                   => /\ last'.outcome.message \in Reads
                      /\ last'.outcome.message = "query" <=> Truthy(last'.args.carer_id)
                      /\ last'.outcome.items \subseteq {store[k] : k \in DOMAIN store}]_vars

C33_Witness ==
    /\ Served("getAvailability")
    /\ last.args = [carer_id |-> Undefined, date |-> "20250726"]
    /\ last.outcome.message = "scan"
    /\ last.outcome.items = StoredItems
    /\ Cardinality({i \in StoredItems : i.availability = "Booked"}) = 8

====
